---- MODULE Spec2Model ----
(***************************************************************************)
(* A model of dash.py, the Battery Analytics Dashboard: one Streamlit      *)
(* script that is re-run from the top on every user event of a session.    *)
(*                                                                         *)
(*   Spec       a session: page loads, uploads, button clicks, each        *)
(*              starting a run of the script over the uploaded CSV         *)
(*   SpecBin    the cycle binning of the three binned plots, over every    *)
(*              max_cycle of a range                                       *)
(*   SpecColor  one "Generate Insights" run over datasets with up to       *)
(*              MaxBatteries batteries (more than the palette has colours) *)
(*                                                                         *)
(* Values: every column holds integers (pandas dtype int64); the mean of a *)
(* group is the exact fraction <<sum, count>>; an interval [lo, hi) of     *)
(* pd.cut is <<lo, hi>> and the missing value NaN of a cut is <<>>.        *)
(* The logo file logo3.png that the script reads at line 33 is taken to be *)
(* deployed with the script.                                               *)
(***************************************************************************)
EXTENDS Integers, Sequences, FiniteSets

VARIABLES
    pc,                 \* position of the running script
    streamed,           \* st.session_state.streamed: "absent", "False", "True"
    uploaded_file,      \* <<>> (None) or <<frame>>: the file in the uploader
    button,             \* st.sidebar.button(...) of this run
    flag_at_start,      \* session flag as this run found it at lines 59-60
    wrote_stream,       \* this run called st.write_stream
    stream_runs,        \* runs that completed the streaming step (0, 1, 2 = more)
    df, temp, x,        \* the data frames of the run
    batteries,          \* df['battery'].unique()
    battery_color_map,  \* battery -> colour
    fig1,               \* traces of Plot 1 (SOH over cycles)
    fig3,               \* curves of Plot 3 (SOH distribution)
    var,                \* signal of the binned plot that ran last
    max_cycle, step_size, bin_edges,
    aggregated_data,    \* result of the binned plot that ran last
    charts,             \* st.plotly_chart calls of this run, in order
    progress,           \* <<k, n>>: the last progress_bar.progress(k / n)
    error,              \* <<>> or <<exception>>: the exception that ended the run
    cut_cycle, cycle_bin \* SpecBin: one cycle value and the bin pd.cut gives it

vars == <<pc, streamed, uploaded_file, button, flag_at_start, wrote_stream,
          stream_runs, df, temp, x, batteries, battery_color_map, fig1, fig3,
          var, max_cycle, step_size, bin_edges, aggregated_data, charts,
          progress, error, cut_cycle, cycle_bin>>

----------------------------------------------------------------------------
(* Bounds of the model *)

\* rows of an uploaded file
MaxRows == 3

\* largest max_cycle of SpecBin
MaxCycle == 110

\* distinct batteries of the datasets of SpecColor
MaxBatteries == 12

----------------------------------------------------------------------------
(* Program constants *)

num_bins == 10

progress_steps == 6

\* dark_mode_colors: colour k stands for the k-th entry of the list (from 0)
dark_mode_colors == <<0, 1, 2, 3, 4, 5, 6, 7, 8, 9>>

Columns == {"battery", "cycle", "time", "SOH", "temperature_measured",
            "current_measured", "voltage_measured"}

NaN == <<>>

NoFrame == [columns |-> {}, rows |-> <<>>]

NoError == <<>>

----------------------------------------------------------------------------
(* Python and pandas helpers *)

Max(a, b) == IF a >= b THEN a ELSE b

\* range(start, stop, step) for step > 0
RECURSIVE Range(_, _, _)
Range(start, stop, step) ==
    IF start >= stop THEN <<>>
    ELSE <<start>> \o Range(start + step, stop, step)

RECURSIVE SeqSum(_)
SeqSum(s) == IF s = <<>> THEN 0 ELSE Head(s) + SeqSum(Tail(s))

RECURSIVE SelectIdx(_, _, _)
\* the indices i of 1..n, ascending, for which keep[i]
SelectIdx(keep, i, n) ==
    IF i > n THEN <<>>
    ELSE (IF keep[i] THEN <<i>> ELSE <<>>) \o SelectIdx(keep, i + 1, n)

\* frame[mask]: a new frame holding the rows the mask keeps
Filter(frame, keep) ==
    LET idx == SelectIdx(keep, 1, Len(frame.rows))
    IN [columns |-> frame.columns,
        rows |-> [k \in 1..Len(idx) |-> frame.rows[idx[k]]]]

\* Series.max() of an int64 column; NaN for an empty column
ColumnMax(frame, c) ==
    IF frame.rows = <<>> THEN NaN
    ELSE LET n == Len(frame.rows)
         IN CHOOSE m \in {frame.rows[i][c] : i \in 1..n} :
                \A i \in 1..n : frame.rows[i][c] <= m

Elems(s) == {s[i] : i \in 1..Len(s)}

\* Series.unique(): the distinct values in order of first appearance
RECURSIVE Unique(_)
Unique(s) ==
    IF s = <<>> THEN <<>>
    ELSE LET n == Len(s)
             front == Unique(SubSeq(s, 1, n - 1))
         IN IF s[n] \in Elems(front) THEN front ELSE Append(front, s[n])

Column(frame, c) == [i \in 1..Len(frame.rows) |-> frame.rows[i][c]]

\* the position of v in s (the last one, as a dict comprehension keeps it)
IndexOf(s, v) == CHOOSE i \in 1..Len(s) :
                     s[i] = v /\ \A j \in (i + 1)..Len(s) : s[j] # v

----------------------------------------------------------------------------
(* Cycle binning: lines 173-178, repeated at 188-193 and 203-208 *)

\* variant: the step rounded up
StepSize_ceil(mc) == Max(1, (mc + num_bins - 1) \div num_bins)

\* step_size = max(1, max_cycle // num_bins)
StepSize(mc) == Max(1, mc \div num_bins)

\* bin_edges = range(0, max_cycle + step_size, step_size)
BinEdges(mc, step) == Range(0, mc + step, step)

\* the intervals pd.cut makes of the edges: one per pair of adjacent edges
Bins(edges) ==
    IF Len(edges) < 2 THEN <<>>
    ELSE [i \in 1..(Len(edges) - 1) |-> <<edges[i], edges[i + 1]>>]

\* variant: intervals closed on both sides
InBin_closed(v, b) == b[1] <= v /\ v <= b[2]

\* right=False: left-inclusive, right-exclusive
InBin(v, b) == b[1] <= v /\ v < b[2]

\* pd.cut(value, bins=edges, right=False): the interval holding v, else NaN
Cut(v, edges) ==
    LET bs == Bins(edges)
    IN IF \E i \in 1..Len(bs) : InBin(v, bs[i])
       THEN bs[CHOOSE i \in 1..Len(bs) :
                   InBin(v, bs[i]) /\ \A j \in 1..(i - 1) : ~InBin(v, bs[j])]
       ELSE NaN

----------------------------------------------------------------------------
(* The uploaded files *)

\* what the measurement on line i of a file reads
SOHAt(i) == 100 - i
TemperatureAt(i) == 20 + i * i
CurrentAt(i) == 2 * i - 3
VoltageAt(i) == 40 - i

BatteryIds == {1, 2}

\* <<cycle, time>> of a row
Samples == {<<-1, 0>>, <<0, 0>>, <<1, 1>>, <<25, 0>>}

\* the frame pd.read_csv gives for lines s, each <<battery, cycle, time>>
MakeFrame(s) ==
    [columns |-> Columns,
     rows |-> [i \in 1..Len(s) |->
                [c \in Columns |->
                    CASE c = "battery" -> s[i][1]
                      [] c = "cycle" -> s[i][2]
                      [] c = "time" -> s[i][3]
                      [] c = "SOH" -> SOHAt(i)
                      [] c = "temperature_measured" -> TemperatureAt(i)
                      [] c = "current_measured" -> CurrentAt(i)
                      [] OTHER -> VoltageAt(i)]]]

\* the same file without the columns outside cs
Project(frame, cs) ==
    [columns |-> cs,
     rows |-> [i \in 1..Len(frame.rows) |-> [c \in cs |-> frame.rows[i][c]]]]

Lines(n) == [1..n -> {<<b, sm[1], sm[2]>> : b \in BatteryIds, sm \in Samples}]

\* a CSV file: its header and its lines
File(cs, s) == [columns |-> cs, lines |-> s]

\* pd.read_csv(file): the typed frame of the columns the header names
ReadCsv(file) == Project(MakeFrame(file.lines), file.columns)

FullFiles == {File(Columns, s) : s \in UNION {Lines(n) : n \in 0..MaxRows}}

\* files that lack columns: every proper subset of the columns, up to one line
PartialFiles ==
    {File(cs, s) : s \in Lines(0) \cup Lines(1),
                   cs \in (SUBSET Columns) \ {Columns}}

Files == FullFiles \cup PartialFiles

Reverse(s) == [i \in 1..Len(s) |-> s[Len(s) + 1 - i]]

\* n batteries named r+1, r+2, ... (wrapping at n), one row each, and with
\* twice a second row each in the opposite order
BatteryLines(n, r, twice) ==
    LET order == [i \in 1..n |-> ((i - 1 + r) % n) + 1]
        first == [i \in 1..n |-> <<order[i], 0, 0>>]
        second == [i \in 1..n |-> <<Reverse(order)[i], 1, 1>>]
    IN IF twice THEN first \o second ELSE first

ColorFiles ==
    {File(Columns, BatteryLines(n, r, t)) :
        n \in 1..MaxBatteries, r \in {0, 1, 5}, t \in BOOLEAN}

----------------------------------------------------------------------------
(* Plot 1 and Plot 3: the batteries and their colours, lines 124-168 *)

\* variant: no wrap-around, the last colour for every further battery
BatteryColorMap_clamped(bs) ==
    [b \in Elems(bs) |->
        dark_mode_colors[IF IndexOf(bs, b) > Len(dark_mode_colors)
                         THEN Len(dark_mode_colors) ELSE IndexOf(bs, b)]]

\* {battery: dark_mode_colors[i % len(dark_mode_colors)] for i, battery in
\*  enumerate(batteries)}; i counts from 0, sequences here from 1
BatteryColorMap(bs) ==
    [b \in Elems(bs) |->
        dark_mode_colors[((IndexOf(bs, b) - 1) % Len(dark_mode_colors)) + 1]]

\* the rows of one battery, in file order
RowsOf(frame, b) ==
    Filter(frame, [i \in 1..Len(frame.rows) |-> frame.rows[i]["battery"] = b])

\* px.line(df, x='cycle', y='SOH', color='battery', color_discrete_map=...,
\* category_orders={"battery": batteries}): one trace per battery of the
\* frame, those of category_orders first and in that order
Plot1Traces(frame, order, cmap) ==
    LET present == Unique(Column(frame, "battery"))
        groups == SelectSeq(order, LAMBDA b : b \in Elems(present))
                  \o SelectSeq(present, LAMBDA b : b \notin Elems(order))
    IN [k \in 1..Len(groups) |->
          LET rs == RowsOf(frame, groups[k]).rows
          IN [name |-> groups[k],
              color |-> IF groups[k] \in DOMAIN cmap THEN cmap[groups[k]] ELSE -1,
              points |-> [i \in 1..Len(rs) |-> <<rs[i]["cycle"], rs[i]["SOH"]>>]]]

\* ff.create_distplot(hist_data, group_labels, curve_type='normal'): per
\* battery scipy's norm.fit gives loc = mean and scale = sqrt(mean squared
\* deviation), and norm.pdf is NaN on the whole grid when scale = 0.  The
\* variance is the fraction var_num / (n * n).
Plot3Curves(frame, bs, cmap) ==
    [k \in 1..Len(bs) |->
        LET soh == Column(RowsOf(frame, bs[k]), "SOH")
            n == Len(soh)
            sum == SeqSum(soh)
            sumsq == SeqSum([i \in 1..n |-> soh[i] * soh[i]])
        IN [name |-> bs[k],
            color |-> cmap[bs[k]],
            n |-> n,
            loc |-> <<sum, n>>,
            var_num |-> n * sumsq - sum * sum,
            density_is_nan |-> (n * sumsq - sum * sum = 0)]]

----------------------------------------------------------------------------
(* Plots 4-6: binned aggregation, lines 171-213 *)

\* temp[(temp['cycle'] >= 0) & (temp['cycle'] <= temp['cycle'].max())]
CycleFilter(frame) ==
    Filter(frame,
           [i \in 1..Len(frame.rows) |->
               /\ frame.rows[i]["cycle"] >= 0
               /\ frame.rows[i]["cycle"] <= ColumnMax(frame, "cycle")])

\* x['cycle_bin'] = pd.cut(x['cycle'], bins=bin_edges, right=False)
WithCycleBin(frame, edges) ==
    [columns |-> frame.columns \cup {"cycle_bin"},
     rows |-> [i \in 1..Len(frame.rows) |->
                [c \in frame.columns \cup {"cycle_bin"} |->
                    IF c = "cycle_bin" THEN Cut(frame.rows[i]["cycle"], edges)
                    ELSE frame.rows[i][c]]]]

\* variant: a selection that keeps every row is a view of temp
TempAfterBinning_view(t, xb) ==
    IF Len(xb.rows) = Len(t.rows) THEN xb ELSE t

\* temp after the assignment of line 178: x is a boolean-mask selection, a
\* frame of its own, so the new column is not written through to temp
TempAfterBinning(t, xb) == t

\* interval order, then time
KeyLess(k1, k2) ==
    \/ k1[1][1] < k2[1][1]
    \/ k1[1][1] = k2[1][1] /\ k1[2] < k2[2]

RECURSIVE SortKeys(_)
SortKeys(K) ==
    IF K = {} THEN <<>>
    ELSE LET m == CHOOSE k \in K : \A j \in K : j = k \/ KeyLess(k, j)
         IN <<m>> \o SortKeys(K \ {m})

\* x.groupby(['cycle_bin', 'time'], as_index=False, observed=True)[v].mean():
\* rows whose key is NaN are left out, groups come sorted by key
Aggregate(frame, v) ==
    LET n == Len(frame.rows)
        keyed == {i \in 1..n : frame.rows[i]["cycle_bin"] # NaN}
        key(i) == <<frame.rows[i]["cycle_bin"], frame.rows[i]["time"]>>
        keys == SortKeys({key(i) : i \in keyed})
        members(k) == SelectIdx([i \in 1..n |-> i \in keyed /\ key(i) = k], 1, n)
    IN [g \in 1..Len(keys) |->
          LET ms == members(keys[g])
          IN [cycle_bin |-> keys[g][1],
              time |-> keys[g][2],
              mean |-> <<SeqSum([j \in 1..Len(ms) |-> frame.rows[ms[j]][v]]),
                         Len(ms)>>]]

----------------------------------------------------------------------------
(* The script, one action per block *)

session == <<streamed, uploaded_file, stream_runs>>
header == <<button, flag_at_start, wrote_stream>>
frames == <<df, temp, x>>
colours == <<batteries, battery_color_map, fig1, fig3>>
binning == <<var, max_cycle, step_size, bin_edges, aggregated_data>>
output == <<charts, progress>>
cutting == <<cut_cycle, cycle_bin>>

Exception(e, names, line) == [exc |-> e, names |-> names, line |-> line]

\* an uncaught exception: Streamlit shows it and the run ends
Raise(e) == error' = <<e>> /\ pc' = "failed"

\* a run starts with no variable of the script bound
FreshRun ==
    /\ df' = NoFrame /\ temp' = NoFrame /\ x' = NoFrame
    /\ batteries' = <<>> /\ battery_color_map' = <<>>
    /\ fig1' = <<>> /\ fig3' = <<>>
    /\ var' = "" /\ max_cycle' = 0 /\ step_size' = 0 /\ bin_edges' = <<>>
    /\ aggregated_data' = <<>>
    /\ charts' = <<>> /\ progress' = <<0, progress_steps>>
    /\ error' = NoError
    /\ wrote_stream' = FALSE
    /\ pc' = "top"

\* the file uploader receives a file: a rerun with the button not pressed
Upload(f) ==
    /\ streamed # "absent"
    /\ uploaded_file = <<>>
    /\ uploaded_file' = <<f>>
    /\ button' = FALSE
    /\ FreshRun
    /\ UNCHANGED <<streamed, stream_runs, flag_at_start, cutting>>

\* the user removes the file: a rerun
RemoveFile ==
    /\ uploaded_file # <<>>
    /\ uploaded_file' = <<>>
    /\ button' = FALSE
    /\ FreshRun
    /\ UNCHANGED <<streamed, stream_runs, flag_at_start, cutting>>

\* the user clicks "Generate Insights", which line 75 has shown: a rerun in
\* which st.sidebar.button returns True
ClickButton ==
    /\ uploaded_file # <<>>
    /\ pc \in {"load", "summary", "plot1", "plot2", "plot3", "plot4", "plot5",
               "plot6", "done", "failed"}
    /\ button' = TRUE
    /\ FreshRun
    /\ UNCHANGED <<session, flag_at_start, cutting>>

\* lines 11-60: page set-up, the uploader, and the session flag's default
ScriptTop ==
    /\ pc = "top"
    /\ streamed' = IF streamed = "absent" THEN "False" ELSE streamed
    /\ flag_at_start' = streamed'
    /\ pc' = "stream_check"
    /\ UNCHANGED <<uploaded_file, stream_runs, button, wrote_stream, frames,
                   colours, binning, output, error, cutting>>

\* line 69-70: st.write_stream(stream_words) begins unless already streamed
StreamCheck ==
    /\ pc = "stream_check"
    /\ IF streamed # "True"
       THEN pc' = "streaming" /\ wrote_stream' = TRUE
       ELSE pc' = "upload_check" /\ UNCHANGED wrote_stream
    /\ UNCHANGED <<session, button, flag_at_start, frames, colours, binning,
                   output, error, cutting>>

\* variant: the flag is not set after streaming
StreamDone_forget ==
    /\ pc = "streaming"
    /\ streamed' = "False"
    /\ stream_runs' = IF stream_runs < 2 THEN stream_runs + 1 ELSE stream_runs
    /\ pc' = "upload_check"
    /\ UNCHANGED <<uploaded_file, header, frames, colours, binning, output,
                   error, cutting>>

\* lines 70-71: the generator is exhausted, then the flag is set
StreamDone ==
    /\ pc = "streaming"
    /\ streamed' = "True"
    /\ stream_runs' = IF stream_runs < 2 THEN stream_runs + 1 ELSE stream_runs
    /\ pc' = "upload_check"
    /\ UNCHANGED <<uploaded_file, header, frames, colours, binning, output,
                   error, cutting>>

\* lines 74-75 and 217-231
UploadCheck ==
    /\ pc = "upload_check"
    /\ pc' = IF uploaded_file # <<>> /\ button THEN "load" ELSE "done"
    /\ UNCHANGED <<session, header, frames, colours, binning, output, error,
                   cutting>>

\* lines 78-82: df = load_data(uploaded_file); temp = df.copy()
LoadData ==
    /\ pc = "load"
    /\ IF uploaded_file[1].columns = {}
       THEN /\ Raise(Exception("EmptyDataError", {}, 78))
            /\ UNCHANGED frames
       ELSE /\ df' = ReadCsv(uploaded_file[1])
            /\ temp' = df'
            /\ pc' = "summary"
            /\ UNCHANGED <<x, error>>
    /\ UNCHANGED <<session, header, colours, binning, output, cutting>>

\* select_dtypes(include=['float64', 'int64']): a frame without rows has
\* only object columns
NumericalCols(frame) == IF frame.rows = <<>> THEN {} ELSE frame.columns

\* lines 85-116: the sidebar summary; describe() of a frame without columns
\* raises; then the progress bar at 0
Summary ==
    /\ pc = "summary"
    /\ IF NumericalCols(df) = {}
       THEN Raise(Exception("ValueError", {}, 105)) /\ UNCHANGED output
       ELSE /\ pc' = "plot1"
            /\ progress' = <<0, progress_steps>>
            /\ UNCHANGED <<charts, error>>
    /\ UNCHANGED <<session, header, frames, colours, binning, cutting>>

\* st.plotly_chart(fig); progress_bar.progress(k / progress_steps)
Render(title, k, next) ==
    /\ charts' = Append(charts, title)
    /\ progress' = <<k, progress_steps>>
    /\ pc' = next
    /\ UNCHANGED error

\* variant: the error names x whichever column is absent
PxLineMissing_x_named(frame) ==
    IF {"cycle", "SOH"} \subseteq frame.columns THEN {} ELSE {"cycle"}

\* the columns px.line(df, x='cycle', y='SOH', color='battery') does not find
\* once line 124 has found 'battery'
PxLineMissing(frame) == {"cycle", "SOH"} \ frame.columns

\* lines 121-137: batteries, the colour map, Plot 1.  px.line names one of
\* the columns it does not find.
Plot1 ==
    /\ pc = "plot1"
    /\ IF "battery" \notin df.columns
       THEN /\ Raise(Exception("KeyError", {"battery"}, 124))
            /\ UNCHANGED <<colours, output>>
       ELSE /\ batteries' = Unique(Column(df, "battery"))
            /\ battery_color_map' = BatteryColorMap(batteries')
            /\ UNCHANGED fig3
            /\ IF PxLineMissing(df) = {}
               THEN /\ fig1' = Plot1Traces(df, batteries', battery_color_map')
                    /\ Render("State of Health (SOH) Over Cycles", 1, "plot2")
               ELSE /\ \E c \in PxLineMissing(df) :
                          Raise(Exception("ValueError", {c}, 130))
                    /\ UNCHANGED <<fig1, output>>
    /\ UNCHANGED <<session, header, frames, binning, cutting>>

CorrColumns == {"voltage_measured", "current_measured", "temperature_measured",
                "SOH"}

\* lines 139-145: the correlation heat map; temp[[...]] names every column
\* of the list it does not find
Plot2 ==
    /\ pc = "plot2"
    /\ IF CorrColumns \subseteq temp.columns
       THEN Render("Correlation Heatmap", 2, "plot3")
       ELSE /\ Raise(Exception("KeyError", CorrColumns \ temp.columns, 141))
            /\ UNCHANGED output
    /\ UNCHANGED <<session, header, frames, colours, binning, cutting>>

\* lines 147-168: the distribution curves; validate_distplot reads
\* hist_data[0]
Plot3 ==
    /\ pc = "plot3"
    /\ IF batteries = <<>>
       THEN /\ Raise(Exception("IndexError", {}, 152))
            /\ UNCHANGED <<fig3, output>>
       ELSE /\ fig3' = Plot3Curves(df, batteries, battery_color_map)
            /\ Render("SOH Distribution Curve", 3, "plot4")
    /\ UNCHANGED <<session, header, frames, batteries, battery_color_map, fig1,
                   binning, cutting>>

\* lines 171-183, 186-198, 201-213: the binned plot of signal v, the k-th
\* chart, whose first line is line `at`
BinnedPlot(here, v, k, at, next) ==
    /\ pc = here
    /\ var' = v
    /\ IF "cycle" \notin temp.columns
       THEN /\ Raise(Exception("KeyError", {"cycle"}, at + 3))
            /\ UNCHANGED <<frames, max_cycle, step_size, bin_edges,
                           aggregated_data, output>>
       ELSE
         LET sel == CycleFilter(temp)
             mc == ColumnMax(sel, "cycle")
         IN IF sel.rows = <<>>
            THEN \* the max of no rows is NaN; max(1, nan // 10) is 1;
                 \* range() refuses the float nan + 1
                 /\ x' = sel
                 /\ max_cycle' = NaN
                 /\ step_size' = 1
                 /\ Raise(Exception("TypeError", {}, at + 6))
                 /\ UNCHANGED <<df, temp, bin_edges, aggregated_data, output>>
            ELSE
              LET step == StepSize(mc)
                  edges == BinEdges(mc, step)
                  xb == WithCycleBin(sel, edges)
              IN /\ max_cycle' = mc
                 /\ step_size' = step
                 /\ bin_edges' = edges
                 /\ x' = xb
                 /\ temp' = TempAfterBinning(temp, xb)
                 /\ UNCHANGED df
                 /\ IF "time" \notin xb.columns
                    THEN /\ Raise(Exception("KeyError", {"time"}, at + 8))
                         /\ UNCHANGED <<aggregated_data, output>>
                    ELSE IF v \notin xb.columns
                    THEN /\ Raise(Exception("KeyError", {v}, at + 8))
                         /\ UNCHANGED <<aggregated_data, output>>
                    ELSE /\ aggregated_data' = Aggregate(xb, v)
                         /\ Render(v, k, next)
    /\ UNCHANGED <<session, header, colours, cutting>>

Plot4 == BinnedPlot("plot4", "temperature_measured", 4, 171, "plot5")

Plot5 == BinnedPlot("plot5", "current_measured", 5, 186, "plot6")

Plot6 == BinnedPlot("plot6", "voltage_measured", 6, 201, "done")

----------------------------------------------------------------------------
(* A session *)

Init ==
    /\ pc = "top"
    /\ streamed = "absent"
    /\ uploaded_file = <<>>
    /\ button = FALSE
    /\ flag_at_start = "absent"
    /\ wrote_stream = FALSE
    /\ stream_runs = 0
    /\ df = NoFrame /\ temp = NoFrame /\ x = NoFrame
    /\ batteries = <<>> /\ battery_color_map = <<>>
    /\ fig1 = <<>> /\ fig3 = <<>>
    /\ var = "" /\ max_cycle = 0 /\ step_size = 0 /\ bin_edges = <<>>
    /\ aggregated_data = <<>>
    /\ charts = <<>> /\ progress = <<0, progress_steps>>
    /\ error = NoError
    /\ cut_cycle = 0 /\ cycle_bin = NaN

RunStep ==
    \/ LoadData
    \/ Summary
    \/ Plot1
    \/ Plot2
    \/ Plot3
    \/ Plot4
    \/ Plot5
    \/ Plot6

Next ==
    \/ \E f \in Files : Upload(f)
    \/ RemoveFile
    \/ ClickButton
    \/ ScriptTop
    \/ StreamCheck
    \/ StreamDone
    \/ UploadCheck
    \/ RunStep

Spec == Init /\ [][Next]_vars

----------------------------------------------------------------------------
(* The binning alone, for every max_cycle of 0..MaxCycle *)

InitBin ==
    /\ pc = "bin_step"
    /\ max_cycle \in 0..MaxCycle
    /\ streamed = "True"
    /\ uploaded_file = <<>>
    /\ button = TRUE
    /\ flag_at_start = "True"
    /\ wrote_stream = FALSE
    /\ stream_runs = 1
    /\ df = NoFrame /\ temp = NoFrame /\ x = NoFrame
    /\ batteries = <<>> /\ battery_color_map = <<>>
    /\ fig1 = <<>> /\ fig3 = <<>>
    /\ var = "" /\ step_size = 0 /\ bin_edges = <<>>
    /\ aggregated_data = <<>>
    /\ charts = <<>> /\ progress = <<0, progress_steps>>
    /\ error = NoError
    /\ cut_cycle = 0 /\ cycle_bin = NaN

\* line 176
BinStep ==
    /\ pc = "bin_step"
    /\ step_size' = StepSize(max_cycle)
    /\ pc' = "bin_edges"
    /\ UNCHANGED <<session, header, frames, colours, var, max_cycle, bin_edges,
                   aggregated_data, output, error, cutting>>

\* line 177
BinRange ==
    /\ pc = "bin_edges"
    /\ bin_edges' = BinEdges(max_cycle, step_size)
    /\ pc' = "bin_cut"
    /\ UNCHANGED <<session, header, frames, colours, var, max_cycle, step_size,
                   aggregated_data, output, error, cutting>>

\* line 178, for one row: any cycle the filter of line 174 lets through
BinCut ==
    /\ pc = "bin_cut"
    /\ \E c \in 0..max_cycle :
          /\ cut_cycle' = c
          /\ cycle_bin' = Cut(c, bin_edges)
    /\ pc' = "bin_done"
    /\ UNCHANGED <<session, header, frames, colours, binning, output, error>>

NextBin ==
    \/ BinStep
    \/ BinRange
    \/ BinCut

SpecBin == InitBin /\ [][NextBin]_vars

----------------------------------------------------------------------------
(* One "Generate Insights" run over a file of many batteries *)

InitColor ==
    /\ pc = "load"
    /\ uploaded_file \in {<<f>> : f \in ColorFiles}
    /\ streamed = "True"
    /\ button = TRUE
    /\ flag_at_start = "True"
    /\ wrote_stream = FALSE
    /\ stream_runs = 1
    /\ df = NoFrame /\ temp = NoFrame /\ x = NoFrame
    /\ batteries = <<>> /\ battery_color_map = <<>>
    /\ fig1 = <<>> /\ fig3 = <<>>
    /\ var = "" /\ max_cycle = 0 /\ step_size = 0 /\ bin_edges = <<>>
    /\ aggregated_data = <<>>
    /\ charts = <<>> /\ progress = <<0, progress_steps>>
    /\ error = NoError
    /\ cut_cycle = 0 /\ cycle_bin = NaN

SpecColor == InitColor /\ [][RunStep]_vars

----------------------------------------------------------------------------
(* Properties of the binning, under SpecBin *)

EdgesBuilt == pc \in {"bin_cut", "bin_done"}

\* C1: the last bin's upper edge is strictly greater than max_cycle, so the
\* row with cycle = max_cycle is given a bin and is not dropped.
C1_LastEdgeAboveMax ==
    /\ EdgesBuilt =>
          /\ Len(Bins(bin_edges)) >= 1
          /\ Bins(bin_edges)[Len(Bins(bin_edges))][2] > max_cycle
    /\ (pc = "bin_done" /\ cut_cycle = max_cycle) => cycle_bin # NaN

\* the case of C1's failure: the last edge is max_cycle itself
C1_BoundaryRowDropped ==
    /\ pc = "bin_done"
    /\ max_cycle = 100
    /\ bin_edges[Len(bin_edges)] = 100
    /\ cut_cycle = 100
    /\ cycle_bin = NaN

NineWide(n) == [i \in 1..n |-> <<9 * (i - 1), 9 * i>>]

\* C2, as amended: for max_cycle = 97 the step is 9, the bins are the 11
\* intervals [0,9), [9,18), ..., [90,99), and cycle 97 falls in [90,99).
C2_Bins97 ==
    (pc = "bin_done" /\ max_cycle = 97) =>
        /\ step_size = 9
        /\ Bins(bin_edges) = NineWide(11)
        /\ cut_cycle = 97 => cycle_bin = <<90, 99>>

\* C2, as stated: the same with exactly 10 bins.
C2_TenBins ==
    (pc = "bin_done" /\ max_cycle = 97) =>
        /\ step_size = 9
        /\ Len(Bins(bin_edges)) = 10
        /\ Bins(bin_edges) = NineWide(10)
        /\ cut_cycle = 97 => cycle_bin = <<90, 99>>

C2_Witness ==
    /\ pc = "bin_done"
    /\ max_cycle = 97
    /\ cut_cycle = 97
    /\ cycle_bin = <<90, 99>>

\* C3: the bins are contiguous and disjoint: the first starts at 0, each is
\* step_size wide, each one's upper edge is the next one's lower edge, and no
\* cycle value lies in two bins.
C3_BinsPartition ==
    EdgesBuilt =>
        LET bs == Bins(bin_edges)
        IN /\ Len(bs) >= 1 => bs[1][1] = 0
           /\ \A i \in 1..Len(bs) : bs[i][2] - bs[i][1] = step_size
           /\ \A i \in 1..(Len(bs) - 1) : bs[i][2] = bs[i + 1][1]
           /\ \A c \in 0..(max_cycle + step_size) :
                 Cardinality({i \in 1..Len(bs) : InBin(c, bs[i])}) <= 1

C3_Witness ==
    /\ pc = "bin_done"
    /\ Len(Bins(bin_edges)) >= 3
    /\ step_size >= 2
    /\ cycle_bin = Bins(bin_edges)[2]
    /\ cut_cycle = bin_edges[2]

----------------------------------------------------------------------------
(* Properties of the colours, under SpecColor *)

FirstIndex(s, v) == CHOOSE i \in 1..Len(s) :
                        s[i] = v /\ \A j \in 1..(i - 1) : s[j] # v

Plot3Done == pc \in {"plot4", "plot5", "plot6", "done"}

\* C5: the battery sequence holds each distinct battery of the column once,
\* in order of first appearance; the i-th battery (from 0) has palette colour
\* i mod 10; and a battery's SOH line and its density curve have the colour
\* the one mapping gives it.
C5_BatteryColours ==
    Plot3Done =>
        LET col == Column(df, "battery")
            n == Len(batteries)
        IN /\ Elems(batteries) = Elems(col)
           /\ \A i, j \in 1..n : i < j =>
                 /\ batteries[i] # batteries[j]
                 /\ FirstIndex(col, batteries[i]) < FirstIndex(col, batteries[j])
           /\ \A i \in 1..n :
                 battery_color_map[batteries[i]]
                     = dark_mode_colors[((i - 1) % 10) + 1]
           /\ Len(fig1) = n
           /\ Len(fig3) = n
           /\ \A i \in 1..n :
                 /\ fig1[i].name = batteries[i]
                 /\ fig3[i].name = batteries[i]
                 /\ fig1[i].color = battery_color_map[batteries[i]]
                 /\ fig3[i].color = fig1[i].color

\* more batteries than colours, in a file that names batteries repeatedly
C5_Witness ==
    /\ pc = "done"
    /\ Len(batteries) > Len(dark_mode_colors)
    /\ Len(df.rows) > Len(batteries)
    /\ batteries[1] # 1
    /\ fig3[Len(batteries)].color = fig1[Len(batteries) - 10].color

----------------------------------------------------------------------------
(* Properties of a session, under Spec *)

Failed == pc = "failed"

Err == error[1]

\* the exception is Python's report of an absent column, which it names
IsMissingColumnError(e) ==
    /\ e.exc \in {"KeyError", "ValueError"}
    /\ e.names # {}
    /\ e.names \subseteq Columns

\* the operation (plot) a line of the analysis belongs to
OperationAt(line) ==
    CASE line <= 137 -> 1
      [] line <= 145 -> 2
      [] line <= 168 -> 3
      [] line <= 183 -> 4
      [] line <= 198 -> 5
      [] OTHER -> 6

\* a binned plot has rendered and its frames are still the current ones
BinnedPlotDone == pc \in {"plot5", "plot6", "done"} /\ Len(charts) >= 4

\* rows of temp inside the cycle range 0..max(cycle)
InRange == {i \in 1..Len(temp.rows) : temp.rows[i]["cycle"] >= 0}

GroupOf(g) ==
    {i \in InRange : /\ InBin(temp.rows[i]["cycle"], aggregated_data[g].cycle_bin)
                     /\ temp.rows[i]["time"] = aggregated_data[g].time}

\* the sum of the signal over the rows of a group
GroupSum(g) ==
    LET n == Len(temp.rows)
        idx == SelectIdx([i \in 1..n |-> i \in GroupOf(g)], 1, n)
    IN SeqSum([j \in 1..Len(idx) |-> temp.rows[idx[j]][var]])

\* C4: one output row per (bin, time) pair of the rows in range, holding the
\* mean of the signal over exactly those rows; every row in range counts in
\* exactly one output row; output rows are ordered by bin, then time.
C4_Aggregation ==
    BinnedPlotDone =>
        LET n == Len(aggregated_data)
        IN /\ \A i \in InRange :
                 Cardinality({g \in 1..n : i \in GroupOf(g)}) = 1
           /\ \A g \in 1..n :
                 /\ GroupOf(g) # {}
                 /\ aggregated_data[g].mean
                        = <<GroupSum(g), Cardinality(GroupOf(g))>>
           /\ \A g, h \in 1..n : g < h =>
                 KeyLess(<<aggregated_data[g].cycle_bin, aggregated_data[g].time>>,
                         <<aggregated_data[h].cycle_bin, aggregated_data[h].time>>)

\* what does hold of the aggregation: C4 for the rows pd.cut gives a bin
C4_AggregationOfBinnedRows ==
    BinnedPlotDone =>
        LET n == Len(aggregated_data)
            binned == {i \in InRange : Cut(temp.rows[i]["cycle"], bin_edges) # NaN}
        IN /\ \A i \in binned :
                 Cardinality({g \in 1..n : i \in GroupOf(g)}) = 1
           /\ \A i \in InRange \ binned :
                 /\ temp.rows[i]["cycle"] = max_cycle
                 /\ \A g \in 1..n : i \notin GroupOf(g)
           /\ \A g \in 1..n :
                 /\ GroupOf(g) # {}
                 /\ aggregated_data[g].mean
                        = <<GroupSum(g), Cardinality(GroupOf(g))>>
           /\ \A g, h \in 1..n : g < h =>
                 KeyLess(<<aggregated_data[g].cycle_bin, aggregated_data[g].time>>,
                         <<aggregated_data[h].cycle_bin, aggregated_data[h].time>>)

\* an aggregation of two groups, one of them of two rows, that drops no row
C4_TwoGroups ==
    /\ BinnedPlotDone
    /\ Len(aggregated_data) = 2
    /\ aggregated_data[1].mean[2] = 2
    /\ \A i \in 1..Len(x.rows) : x.rows[i]["cycle_bin"] # NaN

\* the row at max_cycle is left out of the aggregation
C4_BoundaryRowMissing ==
    /\ BinnedPlotDone
    /\ Len(x.rows) = 2
    /\ x.rows[2]["cycle"] = max_cycle
    /\ x.rows[2]["cycle_bin"] = NaN
    /\ Len(aggregated_data) = 1

SOHCount(b) ==
    Cardinality({i \in 1..Len(df.rows) : df.rows[i]["battery"] = b})

\* C6: a battery with fewer than 2 SOH observations gets an error outcome of
\* its own and no curve fitted in its place, the other batteries get their
\* curves, and the run goes on.
C6_InsufficientData ==
    (pc \in {"plot4", "plot5", "plot6", "done"}) =>
        /\ \A k \in 1..Len(fig3) : fig3[k].n >= 2
        /\ \A b \in Elems(batteries) :
              SOHCount(b) >= 2 => \E k \in 1..Len(fig3) : fig3[k].name = b

\* one battery with a single observation beside one with two: both get a curve,
\* the first a curve without any defined value, and nothing is reported
C6_SilentCurve ==
    /\ pc = "plot4"
    /\ error = NoError
    /\ Len(fig3) = 2
    /\ fig3[1].n = 1 /\ fig3[1].density_is_nan
    /\ fig3[2].n = 2 /\ ~fig3[2].density_is_nan

\* the run has reached series extraction (lines 121-137) with a frame that
\* lacks SOH
ExtractionWithoutSOH ==
    /\ df # NoFrame
    /\ "SOH" \notin df.columns
    /\ pc \in {"plot2", "plot3", "plot4", "plot5", "plot6", "done"}
       \/ (Failed /\ Err.line >= 121)

\* every operation that fails on an absent column has rendered no chart of
\* its own: the charts are those of the operations before it
FailsBeforeOutput ==
    (Failed /\ Err.line >= 121 /\ IsMissingColumnError(Err)) =>
        /\ Len(charts) = OperationAt(Err.line) - 1
        /\ progress[1] = Len(charts)
        /\ Err.names \cap df.columns = {}

NoRowsInRange == var # "" /\ x.columns # {} /\ x.rows = <<>>

\* C8: when no rows remain after the cycle-range filter the aggregation
\* fails with EmptyDatasetError; it neither goes on with an undefined
\* max_cycle nor returns an empty result.
C8_EmptyDatasetError ==
    NoRowsInRange =>
        /\ Failed
        /\ Err.exc = "EmptyDatasetError"
        /\ aggregated_data = <<>>

\* what the code does there: max_cycle is NaN, the step is computed from it,
\* and range() raises a TypeError
C8_TypeErrorFromRange ==
    /\ NoRowsInRange
    /\ Len(temp.rows) = 2
    /\ Failed
    /\ Err = Exception("TypeError", {}, 177)
    /\ max_cycle = NaN
    /\ step_size = 1
    /\ Len(charts) = 3

\* C9: the loaded dataset is never altered in a run: df and the working copy
\* temp keep the rows, columns and values of the load, and cycle_bin is
\* added to the per-plot selection x alone, so every binned plot starts from
\* a working copy without a cycle_bin column.
C9_DatasetUnaltered ==
    df # NoFrame =>
        /\ uploaded_file # <<>>
        /\ df = ReadCsv(uploaded_file[1])
        /\ temp = df
        /\ "cycle_bin" \notin temp.columns
        /\ x # NoFrame => x.columns \ {"cycle_bin"} = temp.columns

\* all six plots ran, and the last selection holds every row of temp
C9_Witness ==
    /\ pc = "done"
    /\ Len(charts) = 6
    /\ "cycle_bin" \in x.columns
    /\ Len(x.rows) = Len(temp.rows)
    /\ Len(temp.rows) = 3
    /\ temp = ReadCsv(uploaded_file[1])

PastStreamCheck == pc \notin {"top", "stream_check"}

PastStreaming == pc \notin {"top", "stream_check", "streaming"}

\* C10: a run streams the welcome text iff the session flag was false when
\* the run started; a run that completed the streaming step leaves the flag
\* true; the flag, once true, is never reset; so completed runs stream the
\* text at most once in a session.
C10_StreamedOnce ==
    /\ [](PastStreamCheck => (wrote_stream <=> flag_at_start = "False"))
    /\ [](PastStreaming => streamed = "True")
    /\ [](stream_runs <= 1)
    /\ [][streamed = "True" => streamed' = "True"]_vars

\* a later run of the session, with the button pressed, that did not stream
C10_Witness ==
    /\ pc = "done"
    /\ button
    /\ stream_runs = 1
    /\ flag_at_start = "True"
    /\ ~wrote_stream
    /\ Len(charts) = 6

====
